---- MODULE Spec2Model ----
(***************************************************************************)
(* Model of the rest-test-params service: POST /compute deserialises a     *)
(* Params record, compute classifies (a, b, c) under the resolved case,    *)
(* output derives the value k, and compute_factory turns the Result into   *)
(* an HTTP response.                                                       *)
(*                                                                         *)
(* Option<T> is a sequence of length at most one: None is << >> and        *)
(* Some(x) is <<x>>.  An f64 is an exact rational <<num, den>>, den > 0.   *)
(***************************************************************************)
EXTENDS Integers, Sequences, FiniteSets, TLC

VARIABLES pc, data, case, h, res, resp

vars == <<pc, data, case, h, res, resp>>

\* ---------------------------------------------------------------- bounds
\* d ranges over n/10 for n in -MaxD..MaxD, plus the 3.7 used by the tests
MaxD == 2
\* e and f range over -MaxE..MaxE, plus the 5 used by the tests
MaxE == 2

\* ---------------------------------------------------------------- Option
None == << >>
Some(x) == <<x>>
is_some(o) == Len(o) = 1
unwrap(o) == o[1]

\* ---------------------------------------------------------------- f64 as exact rationals
F64(n, d) == <<n, d>>
\* From<i32> for f64
into_f64(i) == <<i, 1>>
f64_add(x, y) == <<x[1] * y[2] + y[1] * x[2], x[2] * y[2]>>
f64_sub(x, y) == <<x[1] * y[2] - y[1] * x[2], x[2] * y[2]>>
f64_mul(x, y) == <<x[1] * y[1], x[2] * y[2]>>
\* every divisor in the program is a non-zero literal
f64_div(x, y) == IF y[1] > 0 THEN <<x[1] * y[2], x[2] * y[1]>>
                 ELSE <<-(x[1] * y[2]), -(x[2] * y[1])>>
f64_eq(x, y) == x[1] * y[2] = y[1] * x[2]

\* ---------------------------------------------------------------- types.rs
Case == {"B", "C1", "C2"}
H == {"M", "P", "T", "E"}

BoolOpts == {None, Some(TRUE), Some(FALSE)}
DVals == {F64(n, 10) : n \in (-MaxD)..MaxD} \cup {F64(37, 10)}
IVals == ((-MaxE)..MaxE) \cup {5}
DOpts == {None} \cup {Some(x) : x \in DVals}
IOpts == {None} \cup {Some(i) : i \in IVals}
CaseOpts == {None} \cup {Some(x) : x \in Case}

Params == [a : BoolOpts, b : BoolOpts, c : BoolOpts,
           d : DOpts, e : IOpts, f : IOpts, case : CaseOpts]

\* Params::default(): every field None
ParamsDefault == [a |-> None, b |-> None, c |-> None,
                  d |-> None, e |-> None, f |-> None, case |-> None]

\* ---------------------------------------------------------------- Result<Output>
Zero == F64(0, 1)
\* Ok(Output { h, k })
Ok(hh, k) == [tag |-> "Ok", h |-> hh, k |-> k, msg |-> ""]
\* Err(anyhow!(..))
Err(m) == [tag |-> "Err", h |-> "-", k |-> Zero, msg |-> m]
\* Option::expect on None: the thread panics with the message
Panic(m) == [tag |-> "Panic", h |-> "-", k |-> Zero, msg |-> m]
NoResult == [tag |-> "-", h |-> "-", k |-> Zero, msg |-> ""]

\* ---------------------------------------------------------------- compute
\* p.case.clone().map_or(Case::B, |v| v)
resolve_case_c1(p) == IF is_some(p.case) THEN unwrap(p.case) ELSE "C1"
resolve_case(p) == IF is_some(p.case) THEN unwrap(p.case) ELSE "B"

\* the match on (a, b, c) under the resolved case
classify_absent_false(a, b, c, cs) ==
    LET v(o) == is_some(o) /\ unwrap(o) IN
    IF cs \in {"B", "C1"}
    THEN CASE v(a) /\ v(b) /\ ~v(c) -> "M"
           [] v(a) /\ v(b) /\ v(c) -> "P"
           [] ~v(a) /\ v(b) /\ v(c) -> "T"
           [] OTHER -> "E"
    ELSE CASE v(a) /\ v(b) /\ ~v(c) -> "M"
           [] v(a) /\ ~v(b) /\ v(c) -> "M"
           [] v(a) /\ v(b) /\ v(c) -> "P"
           [] ~v(a) /\ v(b) /\ v(c) -> "T"
           [] OTHER -> "E"
classify(a, b, c, cs) ==
    IF cs \in {"B", "C1"}
    THEN CASE a = Some(TRUE) /\ b = Some(TRUE) /\ c = Some(FALSE) -> "M"
           [] a = Some(TRUE) /\ b = Some(TRUE) /\ c = Some(TRUE) -> "P"
           [] a = Some(FALSE) /\ b = Some(TRUE) /\ c = Some(TRUE) -> "T"
           [] OTHER -> "E"
    ELSE CASE a = Some(TRUE) /\ b = Some(TRUE) /\ c = Some(FALSE) -> "M"
           [] a = Some(TRUE) /\ b = Some(FALSE) /\ c = Some(TRUE) -> "M"
           [] a = Some(TRUE) /\ b = Some(TRUE) /\ c = Some(TRUE) -> "P"
           [] a = Some(FALSE) /\ b = Some(TRUE) /\ c = Some(TRUE) -> "T"
           [] OTHER -> "E"

\* ---------------------------------------------------------------- output
\* H::M arm
output_M_div100(d, p, cs) ==
    IF ~is_some(p.e) THEN Panic("no E param")
    ELSE LET e == into_f64(unwrap(p.e)) IN
         IF cs = "C2"
         THEN IF ~is_some(p.f) THEN Panic("no F param")
              ELSE LET f == into_f64(unwrap(p.f)) IN
                   Ok("M", f64_add(f64_add(f, d),
                                   f64_div(f64_mul(d, e), F64(100, 1))))
         ELSE Ok("M", f64_add(d, f64_div(f64_mul(d, e), F64(100, 1))))
output_M(d, p, cs) ==
    IF ~is_some(p.e) THEN Panic("no E param")
    ELSE LET e == into_f64(unwrap(p.e)) IN
         IF cs = "C2"
         THEN IF ~is_some(p.f) THEN Panic("no F param")
              ELSE LET f == into_f64(unwrap(p.f)) IN
                   Ok("M", f64_add(f64_add(f, d),
                                   f64_div(f64_mul(d, e), F64(100, 1))))
         ELSE Ok("M", f64_add(d, f64_div(f64_mul(d, e), F64(10, 1))))

\* H::P arm
output_P(d, p, cs) ==
    IF ~is_some(p.e) THEN Panic("no E param")
    ELSE IF ~is_some(p.f) THEN Panic("no F param")
    ELSE LET e == into_f64(unwrap(p.e))
             f == into_f64(unwrap(p.f))
         IN IF cs = "C1"
            THEN Ok("M", f64_add(f64_mul(F64(2, 1), d),
                                 f64_div(f64_mul(d, e), F64(100, 1))))
            ELSE Ok("M", f64_add(d, f64_div(f64_mul(d, f64_sub(e, f)),
                                            F64(255, 10))))

\* H::T arm
output_T(d, p) ==
    IF ~is_some(p.f) THEN Panic("no F param")
    ELSE LET f == into_f64(unwrap(p.f)) IN
         Ok("M", f64_sub(d, f64_div(f64_mul(d, f), F64(30, 1))))

\* H::E arm
output_E == Err("Set of parameters is not supported.")

output_error_first(hh, p, cs) ==
    IF hh = "E" THEN output_E
    ELSE IF ~is_some(p.d) THEN Panic("no D param")
    ELSE LET d == unwrap(p.d) IN
         CASE hh = "M" -> output_M(d, p, cs)
           [] hh = "P" -> output_P(d, p, cs)
           [] hh = "T" -> output_T(d, p)
output(hh, p, cs) ==
    IF ~is_some(p.d) THEN Panic("no D param")
    ELSE LET d == unwrap(p.d) IN
         CASE hh = "M" -> output_M(d, p, cs)
           [] hh = "P" -> output_P(d, p, cs)
           [] hh = "T" -> output_T(d, p)
           [] hh = "E" -> output_E

\* fn compute(p: &Params) -> Result<Output>
compute(p) == output(classify(p.a, p.b, p.c, resolve_case(p)), p, resolve_case(p))

\* ---------------------------------------------------------------- compute_factory
NoResponse == [status |-> 0, h |-> "-", k |-> Zero, body |-> ""]
\* Ok(a) => HttpResponse::Ok().json(a); Err(e) => ErrorBadRequest("Wrong params: ..");
\* a panic unwinds through the handler, which returns no response
respond(r) ==
    CASE r.tag = "Ok" -> [status |-> 200, h |-> r.h, k |-> r.k, body |-> "json"]
      [] r.tag = "Err" -> [status |-> 400, h |-> "-", k |-> Zero, body |-> "Wrong params"]
      [] OTHER -> NoResponse

\* ---------------------------------------------------------------- state machine
Init ==
    /\ pc = "idle"
    /\ data = ParamsDefault
    /\ case = "B"
    /\ h = "E"
    /\ res = NoResult
    /\ resp = NoResponse

\* POST /compute: the json extractor hands the deserialised Params to the handler
Request ==
    /\ pc = "idle"
    /\ \E p \in Params : data' = p
    /\ pc' = "compute"
    /\ case' = "B"
    /\ h' = "E"
    /\ res' = NoResult
    /\ resp' = NoResponse

\* compute: resolve the case and classify (a, b, c), then call output
Compute ==
    /\ pc = "compute"
    /\ case' = resolve_case(data)
    /\ h' = classify(data.a, data.b, data.c, resolve_case(data))
    /\ pc' = "output"
    /\ UNCHANGED <<data, res, resp>>

\* output: presence checks and the value formula
Output ==
    /\ pc = "output"
    /\ res' = output(h, data, case)
    /\ pc' = "respond"
    /\ UNCHANGED <<data, case, h, resp>>

\* compute_factory: map the Result to the HTTP response
ComputeFactory ==
    /\ pc = "respond"
    /\ resp' = respond(res)
    /\ pc' = "done"
    /\ UNCHANGED <<data, case, h, res>>

\* the response is written and the worker waits for the next request
Served ==
    /\ pc = "done"
    /\ pc' = "idle"
    /\ data' = ParamsDefault
    /\ case' = "B"
    /\ h' = "E"
    /\ res' = NoResult
    /\ resp' = NoResponse

Next == Request \/ Compute \/ Output \/ ComputeFactory \/ Served

Spec == Init /\ [][Next]_vars

TypeOK ==
    /\ pc \in {"idle", "compute", "output", "respond", "done"}
    /\ data \in Params
    /\ case \in Case
    /\ h \in H
    /\ res.tag \in {"-", "Ok", "Err", "Panic"}
    /\ resp.status \in {0, 200, 400}

Classified == pc \in {"output", "respond", "done"}
Evaluated == pc \in {"respond", "done"}
Responded == pc = "done"

\* ---------------------------------------------------------------- properties
present3 == is_some(data.d) /\ is_some(data.e) /\ is_some(data.f)

\* C1: every evaluation ends in a result or a typed failure value; no panic
\* is reachable from any Params, in particular not from an absent d, e or f.
C1_NoPanic == Evaluated => res.tag \in {"Ok", "Err"}

\* the dispatch table of the specification, as a set of rows
TableBase == {<<TRUE, TRUE, FALSE, "M">>, <<TRUE, TRUE, TRUE, "P">>,
              <<FALSE, TRUE, TRUE, "T">>}
TableVariant2 == TableBase \cup {<<TRUE, FALSE, TRUE, "M">>}
Table(cs) == IF cs = "C2" THEN TableVariant2 ELSE TableBase

C3_TagIsClassification == (Evaluated /\ res.tag = "Ok") => res.h = h

\* C4: under Custom 2, (a, b, c) = (true, true, false) is classified T and
\* (true, false, true) is classified M.
C4_Custom2Rows ==
    (Classified /\ case = "C2") =>
        /\ (data.a = Some(TRUE) /\ data.b = Some(TRUE) /\ data.c = Some(FALSE))
               => h = "T"
        /\ (data.a = Some(TRUE) /\ data.b = Some(FALSE) /\ data.c = Some(TRUE))
               => h = "M"

\* C5: whenever d is absent, whatever the other fields and the rule set are,
\* evaluation yields the typed failure MissingField("d").
C5_MissingD ==
    (Evaluated /\ data.d = None) => (res.tag = "Err" /\ res.msg = "MissingField(d)")

C7_Status ==
    Responded =>
        IF res.tag = "Ok"
        THEN resp.status = 200 /\ resp.h = res.h /\ resp.k = res.k
        ELSE resp.status = 400

\* C8: an input without a rule-set selector is evaluated exactly as the same
\* input with the selector set to Base: same outcome, value and failure.
C8_AbsentCaseIsBase ==
    (Evaluated /\ data.case = None) =>
        /\ case = "B"
        /\ h = classify(data.a, data.b, data.c, "B")
        /\ res = compute([data EXCEPT !.case = Some("B")])

C8_Witness ==
    /\ Responded /\ data.case = None
    /\ h = "P" /\ res.tag = "Ok"
    /\ ~f64_eq(unwrap(data.d), Zero)
    /\ unwrap(data.e) # unwrap(data.f)

\* the fields each (outcome, rule set) path requires besides d
Requires(o, cs) ==
    CASE o = "M" -> IF cs = "C2" THEN {"e", "f"} ELSE {"e"}
      [] o = "P" -> IF cs = "C1" THEN {"e"} ELSE {"e", "f"}
      [] o = "T" -> {"f"}
      [] OTHER -> {}
Absent == {n \in {"e", "f"} : data[n] = None}

\* C9: with d present, an absent e or f makes evaluation fail only when that
\* field is required by the resolved (outcome, rule set) path; in particular
\* P under Variant1 with f absent yields 2*d + d*e/100 and T with e absent
\* yields d - d*f/30.
C9_FailsOnlyOnRequired ==
    (Evaluated /\ h # "E" /\ is_some(data.d)) =>
        /\ res.tag = "Ok" <=> Absent \cap Requires(h, case) = {}
        /\ (h = "P" /\ case = "C1" /\ is_some(data.e) /\ data.f = None) =>
               /\ res.tag = "Ok"
               /\ res.k[1] * 100 * unwrap(data.d)[2]
                    = res.k[2] * unwrap(data.d)[1] * (200 + unwrap(data.e))
        /\ (h = "T" /\ is_some(data.f) /\ data.e = None) =>
               /\ res.tag = "Ok"
               /\ res.k[1] * 30 * unwrap(data.d)[2]
                    = res.k[2] * unwrap(data.d)[1] * (30 - unwrap(data.f))

\* the value table of the specification in scaled integer form: the pair
\* <<n, m>> stands for n / m, with d = dn / dd
Formula(o, cs, dn, dd, e, f) ==
    CASE o = "M" /\ cs # "C2" -> <<dn * (10 + e), 10 * dd>>
      [] o = "M" /\ cs = "C2" -> <<100 * f * dd + dn * (100 + e), 100 * dd>>
      [] o = "P" /\ cs # "C1" -> <<dn * (51 + 2 * (e - f)), 51 * dd>>
      [] o = "P" /\ cs = "C1" -> <<dn * (200 + e), 100 * dd>>
      [] o = "T" -> <<dn * (30 - f), 30 * dd>>

\* C10: with d, e, f all present and a non-Error classification the value k
\* is the table's formula for (outcome, rule set, d, e, f).
C10_ValueFormula ==
    (Evaluated /\ h # "E" /\ present3) =>
        /\ res.tag = "Ok"
        /\ res.k[2] > 0
        /\ LET d == unwrap(data.d)
               x == Formula(h, case, d[1], d[2], unwrap(data.e), unwrap(data.f))
           IN res.k[1] * x[2] = x[1] * res.k[2]

C10_Witness ==
    /\ Responded /\ h = "M" /\ case = "B" /\ present3
    /\ unwrap(data.d) = F64(37, 10) /\ unwrap(data.e) = 5
    /\ res.tag = "Ok"
    /\ f64_eq(res.k, F64(555, 100))
====
